---- MODULE Spec2Model ----
(***************************************************************************)
(* Model of ecg.py: the process-wide model state (MODEL, LABEL_TO_ID,      *)
(* ID_TO_LABEL), load_model, analyze_ecg_image and the /analyze handler.   *)
(*                                                                         *)
(* The entry points load_model, analyze_ecg_image and analyze are called  *)
(* by the threads of the process (the Flask server started by app.run     *)
(* serves each request on its own thread).  A handler is cut into actions *)
(* only where it reads or writes the globals; the statements between two  *)
(* such points touch only locals and are part of the action before them.  *)
(***************************************************************************)
EXTENDS Integers, Sequences, FiniteSets, TLC

\* The threads that call into the module.
Threads == {"t1", "t2"}

\* Largest raw logit of the forward pass, in units of LogitUnit.
MaxLogit == 2
LogitUnit == 4

\* num_classes=4 of timm.create_model
NumClasses == 4
ClassIdx == 0 .. (NumClasses - 1)

\* Python values: None, and a dict with its items.
PyNone == [py |-> "None"]
PyDict(items) == [py |-> "dict", items |-> items]

\* The literal list of displayResults
labels == <<"Abnormal_Heartbeat", "Myocardial_Infarction", "Normal_ECG", "Post_MI_History">>
KnownLabels == {labels[i] : i \in 1 .. Len(labels)}

\* model_path arguments: the default of load_model and the one __main__ passes.
Paths == {"D:\\projects\\tests\\ecg\\trained_ecg_model.pth", "trained_ecg_model.pth"}

(***************************************************************************)
(* What torch.load may find at model_path.  The file is outside the       *)
(* process; each read draws its content from CheckpointFiles, or fails.   *)
(***************************************************************************)
CanonicalI2L == [i \in ClassIdx |-> labels[i + 1]]
PermutedI2L == [i \in ClassIdx |-> labels[NumClasses - i]]
ForeignI2L == [i \in ClassIdx |-> IF i = 0 THEN "Atrial_Fibrillation" ELSE labels[i + 1]]
ShortI2L == [i \in 0 .. (NumClasses - 2) |-> labels[i + 1]]

Invert(i2l) == [l \in {i2l[i] : i \in DOMAIN i2l} |-> CHOOSE i \in DOMAIN i2l : i2l[i] = l]

Checkpoint(w, hasL2I, hasI2L, i2l) ==
    [weights |-> w,
     label_to_id |-> IF hasL2I THEN PyDict(Invert(i2l)) ELSE PyNone,
     id_to_label |-> IF hasI2L THEN PyDict(i2l) ELSE PyNone]

\* weights: "ok" loads into the architecture, "mismatch" makes load_state_dict
\* raise, "absent" is a checkpoint without the key 'model_state_dict'.
\* A PyNone map stands for a checkpoint without that key.
CheckpointFiles ==
    { Checkpoint("ok", TRUE, TRUE, CanonicalI2L),
      Checkpoint("mismatch", TRUE, TRUE, CanonicalI2L),
      Checkpoint("absent", TRUE, TRUE, CanonicalI2L),
      Checkpoint("ok", FALSE, TRUE, CanonicalI2L),
      Checkpoint("ok", TRUE, FALSE, CanonicalI2L),
      Checkpoint("ok", TRUE, TRUE, PermutedI2L),
      Checkpoint("ok", TRUE, TRUE, ForeignI2L),
      Checkpoint("ok", TRUE, TRUE, ShortI2L) }

NoCheckpoint == [weights |-> "none", label_to_id |-> PyNone, id_to_label |-> PyNone]

\* A model instance as created by timm.create_model(pretrained=False):
\* random weights, on the CPU, in training mode.
FreshModel == [weights |-> FALSE, device |-> FALSE, eval |-> FALSE]

(***************************************************************************)
(* analyze_ecg_image, lines 62-70: softmax, argmax, confidence.           *)
(* Logits are integers; probabilities are fixed-point numbers in units of *)
(* 1/ProbUnit.                                                            *)
(***************************************************************************)
ProbUnit == 10000

LogitVals == {k * LogitUnit : k \in 0 .. MaxLogit}
Logits == [ClassIdx -> LogitVals]

\* The outputs the forward pass is given in the threads' specification: one
\* with its peak at each class, and one with all classes tied.
ForwardOutputs ==
    {[i \in ClassIdx |-> IF i = k THEN LogitUnit ELSE 0] : k \in ClassIdx \cup {NumClasses}}

Max(S) == CHOOSE m \in S : \A n \in S : n <= m

RECURSIVE Sum(_, _)
Sum(f, S) == IF S = {} THEN 0
             ELSE LET i == CHOOSE j \in S : TRUE IN f[i] + Sum(f, S \ {i})

\* 1000 * e^d for d <= 0, rounded; it underflows to 0 as the float exp does.
ExpMilli(d) ==
    CASE d = 0 -> 1000 [] d = -1 -> 368 [] d = -2 -> 135 [] d = -3 -> 50
      [] d = -4 -> 18  [] d = -5 -> 7   [] d = -6 -> 2   [] d = -7 -> 1
      [] OTHER -> 0

\* The exponentials without the division by their sum.
SoftmaxUnnormalized(output) ==
    LET m == Max({output[i] : i \in ClassIdx})
    IN  [i \in ClassIdx |-> (ExpMilli(output[i] - m) * ProbUnit) \div 1000]

\* torch.softmax(output, dim=1)[0]: exp(x - max) / sum, rounded to nearest.
softmax(output) ==
    LET m == Max({output[i] : i \in ClassIdx})
        e == [i \in ClassIdx |-> ExpMilli(output[i] - m)]
        s == Sum(e, ClassIdx)
    IN  [i \in ClassIdx |-> (2 * e[i] * ProbUnit + s) \div (2 * s)]

\* The index of the first minimal value.
ArgMin(output) ==
    CHOOSE i \in ClassIdx :
        /\ \A j \in ClassIdx : output[j] >= output[i]
        /\ \A j \in ClassIdx : j < i => output[j] > output[i]

\* output.argmax().item(): the index of the first maximal value.
argmax(output) ==
    CHOOSE i \in ClassIdx :
        /\ \A j \in ClassIdx : output[j] <= output[i]
        /\ \A j \in ClassIdx : j < i => output[j] < output[i]

\* Lines 64-70 for the raw output of the forward pass.  ID_TO_LABEL[idx]
\* raises TypeError on None and KeyError on a missing index.
Classify(output, id_to_label) ==
    LET probabilities == softmax(output)
        predicted_class_idx == argmax(output)
    IN  IF id_to_label.py = "None"
        THEN [raised |-> "TypeError: 'NoneType' object is not subscriptable"]
        ELSE IF predicted_class_idx \notin DOMAIN id_to_label.items
        THEN [raised |-> "KeyError"]
        ELSE [raised |-> "",
              predicted_label |-> id_to_label.items[predicted_class_idx],
              confidence_score |-> probabilities[predicted_class_idx],
              all_probabilities |-> probabilities,
              predicted_class_idx |-> predicted_class_idx]

(***************************************************************************)
(* mark_ecg_image.  An RGB array is the pixels it was decoded from, the   *)
(* shapes drawn on it since, and what the detectors find on its edge map: *)
(* the areas of the external contours in the order findContours returns   *)
(* them, and the number of segments HoughLinesP returns for each of the   *)
(* two parameter sets (0: it returns None).  Arrays live in a memory, a   *)
(* sequence; a Python reference to an array is its index there.           *)
(***************************************************************************)
AbnormalAreaLo == 30
AbnormalAreaHi == 300
PostMIAreaLo == 25
PostMIAreaHi == 250
MILineCap == 12
NormalLineCap == 10

\* np.array(image.convert('RGB')): nothing is drawn on a decoded image.
Image(px, areas, nMI, nNormal) ==
    [pixels |-> px, contours |-> areas, linesMI |-> nMI, linesNormal |-> nNormal,
     drawn |-> << >>]

Images ==
    { Image("blank", << >>, 0, 0),
      Image("strip", <<25, 26, 30, 31, 249, 250, 299, 300>>, 3, 2),
      Image("dense", <<100>>, MILineCap + 1, NormalLineCap + 1) }

\* A rectangle around every contour, whatever its area.
RectanglesUnfiltered(areas, lo, hi, color) ==
    [i \in 1 .. Len(areas) |->
        [shape |-> "rectangle", of |-> i, color |-> color, thickness |-> 2]]

\* The area test with its bounds included.
RectanglesInclusive(areas, lo, hi, color) ==
    LET keep == {i \in 1 .. Len(areas) : lo <= areas[i] /\ areas[i] <= hi}
        RECURSIVE Draw(_)
        Draw(i) == IF i > Len(areas) THEN << >>
                   ELSE (IF i \in keep
                         THEN <<[shape |-> "rectangle", of |-> i, color |-> color, thickness |-> 2]>>
                         ELSE << >>) \o Draw(i + 1)
    IN  Draw(1)

Rectangles(areas, lo, hi, color) ==
    LET keep == {i \in 1 .. Len(areas) : lo < areas[i] /\ areas[i] < hi}
        RECURSIVE Draw(_)
        Draw(i) == IF i > Len(areas) THEN << >>
                   ELSE (IF i \in keep
                         THEN <<[shape |-> "rectangle", of |-> i, color |-> color, thickness |-> 2]>>
                         ELSE << >>) \o Draw(i + 1)
    IN  Draw(1)

Min(a, b) == IF a < b THEN a ELSE b

\* The loop over lines without the slice.
LinesUncapped(n, cap, thickness) ==
    [i \in 1 .. n |->
        [shape |-> "line", of |-> i, color |-> <<0, 255, 0>>, thickness |-> thickness]]

Lines(n, cap, thickness) ==
    [i \in 1 .. Min(n, cap) |->
        [shape |-> "line", of |-> i, color |-> <<0, 255, 0>>, thickness |-> thickness]]

\* What a branch of the chain leaves: its name, and the shapes it drew.
Ran(branch, shapes) == [ran |-> <<branch>>, shapes |-> shapes]

\* The if/elif chain with a final else that takes the Normal_ECG branch.
StrategyElseNormal(img_array, prediction) ==
    IF prediction = "Abnormal_Heartbeat"
    THEN Ran("Abnormal_Heartbeat",
             Rectangles(img_array.contours, AbnormalAreaLo, AbnormalAreaHi, <<255, 0, 0>>))
    ELSE IF prediction = "Myocardial_Infarction"
    THEN Ran("Myocardial_Infarction", Lines(img_array.linesMI, MILineCap, 3))
    ELSE IF prediction = "Post_MI_History"
    THEN Ran("Post_MI_History",
             Rectangles(img_array.contours, PostMIAreaLo, PostMIAreaHi, <<255, 0, 255>>))
    ELSE Ran("Normal_ECG", Lines(img_array.linesNormal, NormalLineCap, 2))

\* Lines 78-106: the if/elif chain.  The branch of the prediction runs its
\* detector on the edge map of img_array and draws its shapes, in the order
\* detected; a prediction equal to none of the four literals runs no branch.
Strategy(img_array, prediction) ==
    IF prediction = "Abnormal_Heartbeat"
    THEN Ran("Abnormal_Heartbeat",
             Rectangles(img_array.contours, AbnormalAreaLo, AbnormalAreaHi, <<255, 0, 0>>))
    ELSE IF prediction = "Myocardial_Infarction"
    THEN Ran("Myocardial_Infarction", Lines(img_array.linesMI, MILineCap, 3))
    ELSE IF prediction = "Normal_ECG"
    THEN Ran("Normal_ECG", Lines(img_array.linesNormal, NormalLineCap, 2))
    ELSE IF prediction = "Post_MI_History"
    THEN Ran("Post_MI_History",
             Rectangles(img_array.contours, PostMIAreaLo, PostMIAreaHi, <<255, 0, 255>>))
    ELSE [ran |-> << >>, shapes |-> << >>]

\* cv2.rectangle and cv2.line write into the array they are given.
DrawOn(arrays, a, shapes) == [arrays EXCEPT ![a].drawn = @ \o shapes]

\* mark_ecg_image drawing on the array it was given.
MarkInPlace(arrays, img_array, prediction) ==
    LET branch == Strategy(arrays[img_array], prediction)
    IN  [arrays |-> DrawOn(arrays, img_array, branch.shapes),
         marked_img |-> img_array,
         ran |-> branch.ran]

\* marked_img = img_array.copy() is a new array; the branch of the prediction
\* draws on it; the function returns the reference marked_img.
mark_ecg_image(arrays, img_array, prediction) ==
    LET marked_img == Len(arrays) + 1
        copied == Append(arrays, arrays[img_array])
        branch == Strategy(arrays[img_array], prediction)
    IN  [arrays |-> DrawOn(copied, marked_img, branch.shapes),
         marked_img |-> marked_img,
         ran |-> branch.ran]

\* image_to_base64: the array as a JPEG, base64-encoded.
image_to_base64(img_array) ==
    [encoding |-> "base64/JPEG", pixels |-> img_array.pixels, drawn |-> img_array.drawn]

(***************************************************************************)
(* get_explanation                                                         *)
(***************************************************************************)
explanations ==
    [Abnormal_Heartbeat |->
        [title |-> "Abnormal Heartbeat Detected", severity |-> "warning",
         icon |-> "U+26A0 U+FE0F",
         findings |-> <<"Irregular rhythm with inconsistent intervals",
                        "Extra beats or premature contractions detected",
                        "P, QRS, or T wave disruptions observed",
                        "Non-standard electrical conduction patterns">>,
         recommendation |-> "Consult with a cardiologist for further evaluation and possible rhythm monitoring."],
     Myocardial_Infarction |->
        [title |-> "Myocardial Infarction Signs", severity |-> "critical",
         icon |-> "U+1F6A8",
         findings |-> <<"ST-segment elevation indicating heart muscle damage",
                        "Abnormal Q-waves suggesting tissue necrosis",
                        "T-wave inversions indicating ischemia",
                        "Altered ST and T segments detected">>,
         recommendation |-> "IMMEDIATE medical attention required. Contact emergency services or go to the nearest ER."],
     Normal_ECG |->
        [title |-> "Normal ECG Pattern", severity |-> "normal",
         icon |-> "U+2713",
         findings |-> <<"Regular rhythm with consistent intervals",
                        "Normal P-QRS-T wave sequence",
                        "Appropriate wave amplitudes",
                        "No significant abnormalities detected">>,
         recommendation |-> "Continue regular health check-ups and maintain a heart-healthy lifestyle."],
     Post_MI_History |->
        [title |-> "Post-MI Changes Detected", severity |-> "monitor",
         icon |-> "U+1F4CB",
         findings |-> <<"Evidence of previous cardiac event",
                        "Persistent ECG abnormalities from scar tissue",
                        "Altered electrical conduction pathways",
                        "Permanent changes from prior myocardial damage">>,
         recommendation |-> "Regular follow-up with cardiologist. Continue prescribed medications and lifestyle modifications."]]

\* explanations.get(prediction, explanations['Normal_ECG'])
\* dict.get without its default: None for a missing key.
GetExplanationNoDefault(prediction) ==
    IF prediction \in DOMAIN explanations
    THEN explanations[prediction]
    ELSE PyNone

get_explanation(prediction) ==
    IF prediction \in DOMAIN explanations
    THEN explanations[prediction]
    ELSE explanations["Normal_ECG"]

VARIABLES
    MODEL,         \* 0 for None, else the index in heap of the instance
    LABEL_TO_ID,    \* PyNone or PyDict
    ID_TO_LABEL,    \* PyNone or PyDict
    heap,           \* the model instances created so far
    pc,             \* position of each thread
    model_path,     \* load_model: its argument
    checkpoint,     \* load_model: its local
    didRead,        \* the current call of the thread has called torch.load
    route,          \* analyze_ecg_image was called by the /analyze handler
    fwd,            \* the instance whose forward pass the thread is in, or 0
    loaded,         \* the instance the first load_model call that ran to line 42
                    \* returned, or 0 when no call has
    failed,         \* some load_model call has returned None
    out             \* the value the last step returned to its caller, if any

vars == <<MODEL, LABEL_TO_ID, ID_TO_LABEL, heap, pc, model_path, checkpoint,
          didRead, route, fwd, loaded, failed, out>>

loadLocals == <<model_path, checkpoint>>
analyzeLocals == <<route, fwd>>

globals == <<MODEL, LABEL_TO_ID, ID_TO_LABEL>>

NoOut == [op |-> "none"]

Init ==
    /\ MODEL = 0
    /\ LABEL_TO_ID = PyNone
    /\ ID_TO_LABEL = PyNone
    /\ heap = << >>
    /\ pc = [t \in Threads |-> "idle"]
    /\ model_path = [t \in Threads |-> ""]
    /\ checkpoint = [t \in Threads |-> NoCheckpoint]
    /\ didRead = [t \in Threads |-> FALSE]
    /\ route = [t \in Threads |-> FALSE]
    /\ fwd = [t \in Threads |-> 0]
    /\ loaded = 0
    /\ failed = FALSE
    /\ out = NoOut

(***************************************************************************)
(* load_model                                                              *)
(***************************************************************************)
LoadReturn(t, value, read) ==
    [op |-> "load_model", by |-> t, value |-> value, read |-> read]

\* The except clause: print the error, return None.  Every statement of the
\* try block that raises is torch.load or comes after it.
LoadExcept(t) ==
    /\ pc' = [pc EXCEPT ![t] = "idle"]
    /\ checkpoint' = [checkpoint EXCEPT ![t] = NoCheckpoint]
    /\ model_path' = [model_path EXCEPT ![t] = ""]
    /\ didRead' = [didRead EXCEPT ![t] = FALSE]
    /\ failed' = TRUE
    /\ out' = LoadReturn(t, 0, TRUE)

\* load_model without its cache: every call loads again.
NeverLoaded == FALSE

\* if MODEL is not None: return MODEL
AlreadyLoaded == MODEL # 0

\* Lines 27-32: the call and the check of the cache.
LoadCall(t) ==
    /\ pc[t] = "idle"
    /\ \E p \in Paths :
         IF AlreadyLoaded
         THEN /\ out' = LoadReturn(t, MODEL, didRead[t])
              /\ UNCHANGED <<pc, model_path>>
         ELSE /\ pc' = [pc EXCEPT ![t] = "torch_load"]
              /\ model_path' = [model_path EXCEPT ![t] = p]
              /\ out' = NoOut
    /\ UNCHANGED <<globals, heap, checkpoint, didRead, analyzeLocals, loaded, failed>>

\* Line 35: checkpoint = torch.load(model_path, map_location=DEVICE)
LoadRead(t) ==
    /\ pc[t] = "torch_load"
    /\ \/ \E c \in CheckpointFiles :
            /\ checkpoint' = [checkpoint EXCEPT ![t] = c]
            /\ pc' = [pc EXCEPT ![t] = "create_model"]
            /\ didRead' = [didRead EXCEPT ![t] = TRUE]
            /\ model_path' = [model_path EXCEPT ![t] = ""]
            /\ out' = NoOut
            /\ UNCHANGED failed
       \/ \* missing or corrupt file: the read was attempted and raised
          LoadExcept(t)
    /\ UNCHANGED <<globals, heap, analyzeLocals, loaded>>

\* Line 36: MODEL = timm.create_model(..., pretrained=False, num_classes=4)
LoadCreate(t) ==
    /\ pc[t] = "create_model"
    /\ heap' = Append(heap, FreshModel)
    /\ MODEL' = Len(heap) + 1
    /\ pc' = [pc EXCEPT ![t] = "load_state_dict"]
    /\ out' = NoOut
    /\ UNCHANGED <<LABEL_TO_ID, ID_TO_LABEL, model_path, checkpoint, didRead, analyzeLocals, loaded, failed>>

\* Line 37: MODEL.load_state_dict(checkpoint['model_state_dict'])
LoadStateDict(t) ==
    /\ pc[t] = "load_state_dict"
    /\ IF checkpoint[t].weights = "ok"
       THEN /\ heap' = [heap EXCEPT ![MODEL].weights = TRUE]
            /\ pc' = [pc EXCEPT ![t] = "to_device"]
            /\ out' = NoOut
            /\ UNCHANGED <<model_path, checkpoint, didRead, failed>>
       ELSE /\ LoadExcept(t)
            /\ UNCHANGED heap
    /\ UNCHANGED <<globals, analyzeLocals, loaded>>

\* Line 38: MODEL = MODEL.to(DEVICE); Module.to returns the module itself.
LoadToDevice(t) ==
    /\ pc[t] = "to_device"
    /\ \/ /\ heap' = [heap EXCEPT ![MODEL].device = TRUE]
          /\ pc' = [pc EXCEPT ![t] = "eval"]
          /\ out' = NoOut
          /\ UNCHANGED <<model_path, checkpoint, didRead, failed>>
       \/ \* the device refuses the allocation
          /\ LoadExcept(t)
          /\ UNCHANGED heap
    /\ UNCHANGED <<globals, analyzeLocals, loaded>>

\* Line 39: MODEL.eval()
LoadEval(t) ==
    /\ pc[t] = "eval"
    /\ heap' = [heap EXCEPT ![MODEL].eval = TRUE]
    /\ pc' = [pc EXCEPT ![t] = "label_to_id"]
    /\ out' = NoOut
    /\ UNCHANGED <<globals, model_path, checkpoint, didRead, analyzeLocals, loaded, failed>>

\* Line 40: LABEL_TO_ID = checkpoint['label_to_id']
LoadLabelToId(t) ==
    /\ pc[t] = "label_to_id"
    /\ IF checkpoint[t].label_to_id.py = "dict"
       THEN /\ LABEL_TO_ID' = checkpoint[t].label_to_id
            /\ pc' = [pc EXCEPT ![t] = "id_to_label"]
            /\ out' = NoOut
            /\ UNCHANGED <<model_path, checkpoint, didRead, failed>>
       ELSE /\ LoadExcept(t)
            /\ UNCHANGED LABEL_TO_ID
    /\ UNCHANGED <<MODEL, ID_TO_LABEL, heap, analyzeLocals, loaded>>

\* Lines 41-42: ID_TO_LABEL = checkpoint['id_to_label']; return MODEL
LoadIdToLabel(t) ==
    /\ pc[t] = "id_to_label"
    /\ IF checkpoint[t].id_to_label.py = "dict"
       THEN /\ ID_TO_LABEL' = checkpoint[t].id_to_label
            /\ pc' = [pc EXCEPT ![t] = "idle"]
            /\ checkpoint' = [checkpoint EXCEPT ![t] = NoCheckpoint]
            /\ out' = LoadReturn(t, MODEL, didRead[t])
            /\ didRead' = [didRead EXCEPT ![t] = FALSE]
            /\ loaded' = IF loaded = 0 THEN MODEL ELSE loaded
            /\ UNCHANGED failed
            /\ UNCHANGED model_path
       ELSE /\ LoadExcept(t)
            /\ UNCHANGED <<ID_TO_LABEL, loaded>>
    /\ UNCHANGED <<MODEL, LABEL_TO_ID, heap, analyzeLocals>>

load_model(t) ==
    \/ LoadCall(t)
    \/ LoadRead(t)
    \/ LoadCreate(t)
    \/ LoadStateDict(t)
    \/ LoadToDevice(t)
    \/ LoadEval(t)
    \/ LoadIdToLabel(t)
    \/ LoadLabelToId(t)

(***************************************************************************)
(* analyze_ecg_image and the /analyze handler                              *)
(***************************************************************************)
Failure(error) == [success |-> FALSE, error |-> error]

Success(prediction, confidence, probabilities, img_array, marked_array) ==
    [success |-> TRUE,
     prediction |-> prediction,
     confidence |-> confidence,
     probabilities |-> probabilities,
     original_image |-> image_to_base64(img_array),
     marked_image |-> image_to_base64(marked_array),
     explanation |-> get_explanation(prediction)]

NotLoadedError == "Model not loaded. Please ensure trained_ecg_model.pth is available."

\* The response of /analyze.
Respond(t, response) ==
    [op |-> "analyze", by |-> t, response |-> response, read |-> didRead[t]]

\* Lines 1097-1098: except Exception as e: the failure response with str(e).
AnalyzeExcept(t, e) == Respond(t, Failure(e))

\* A handler without its try/except: the exception leaves the handler.
RaisePropagates(t, e) == [op |-> "analyze_ecg_image", by |-> t, raised |-> e]

\* An exception leaves analyze_ecg_image: it reaches the except clause of the
\* handler, or the caller of a direct call.
Raise(t, e) ==
    IF route[t] THEN AnalyzeExcept(t, e)
    ELSE [op |-> "analyze_ecg_image", by |-> t, raised |-> e]

\* What lines 1064-1072 and 49-60 can raise: request.files on an oversized
\* body, Image.open on bytes that are no image, the transform.
RequestErrors == {"RequestEntityTooLarge", "UnidentifiedImageError", "transform failed"}

\* if MODEL is None, line 1060
ModelIsNone == MODEL = 0

\* A handler whose except clause discards the model.
AnalyzeCallDropsModel(t) ==
    /\ pc[t] = "idle"
    /\ IF ModelIsNone
       THEN /\ out' = Respond(t, Failure(NotLoadedError))
            /\ UNCHANGED <<pc, route, globals>>
       ELSE \/ /\ out' = Respond(t, Failure("No file uploaded"))
               /\ UNCHANGED <<pc, route, globals>>
            \/ /\ \E e \in RequestErrors : out' = AnalyzeExcept(t, e)
               /\ MODEL' = 0
               /\ UNCHANGED <<pc, route, LABEL_TO_ID, ID_TO_LABEL>>
            \/ /\ pc' = [pc EXCEPT ![t] = "call_model"]
               /\ route' = [route EXCEPT ![t] = TRUE]
               /\ out' = NoOut
               /\ UNCHANGED globals
    /\ UNCHANGED <<heap, loadLocals, didRead, fwd, loaded, failed>>

\* Lines 1056-1072 and 49-60: the check of MODEL, the uploaded file, the
\* decoding and the preprocessing, up to the call of MODEL in line 63.
AnalyzeCall(t) ==
    /\ pc[t] = "idle"
    /\ IF ModelIsNone
       THEN /\ out' = Respond(t, Failure(NotLoadedError))
            /\ UNCHANGED <<pc, route>>
       ELSE \/ /\ out' = Respond(t, Failure("No file uploaded"))
               /\ UNCHANGED <<pc, route>>
            \/ /\ \E e \in RequestErrors : out' = AnalyzeExcept(t, e)
               /\ UNCHANGED <<pc, route>>
            \/ /\ pc' = [pc EXCEPT ![t] = "call_model"]
               /\ route' = [route EXCEPT ![t] = TRUE]
               /\ out' = NoOut
    /\ UNCHANGED <<globals, heap, loadLocals, didRead, fwd, loaded, failed>>

\* Lines 47-60 of a direct call of analyze_ecg_image(image).
ClassifyCall(t) ==
    /\ pc[t] = "idle"
    /\ pc' = [pc EXCEPT ![t] = "call_model"]
    /\ route' = [route EXCEPT ![t] = FALSE]
    /\ out' = NoOut
    /\ UNCHANGED <<globals, heap, loadLocals, didRead, fwd, loaded, failed>>

\* Line 63: MODEL is read and called: the forward pass begins.
ForwardBegin(t) ==
    /\ pc[t] = "call_model"
    /\ IF MODEL = 0
       THEN /\ out' = Raise(t, "TypeError: 'NoneType' object is not callable")
            /\ pc' = [pc EXCEPT ![t] = "idle"]
            /\ route' = [route EXCEPT ![t] = FALSE]
            /\ UNCHANGED fwd
       ELSE /\ fwd' = [fwd EXCEPT ![t] = MODEL]
            /\ pc' = [pc EXCEPT ![t] = "forward"]
            /\ out' = NoOut
            /\ UNCHANGED route
    /\ UNCHANGED <<globals, heap, loadLocals, didRead, loaded, failed>>

\* What the caller gets when analyze_ecg_image returns r for the image img:
\* the tuple of line 70, or lines 1078-1095 of the handler.
Finish(t, r, img, fault) ==
    IF ~route[t]
    THEN [op |-> "analyze_ecg_image", by |-> t, raised |-> "",
          value |-> <<r.predicted_label, r.confidence_score, r.all_probabilities>>,
          idx |-> r.predicted_class_idx, id_to_label |-> ID_TO_LABEL,
          model |-> heap[fwd[t]]]
    ELSE IF fault # ""
    THEN AnalyzeExcept(t, fault)
    ELSE LET marked == mark_ecg_image(<<img>>, 1, r.predicted_label)
         IN  [op |-> "analyze", by |-> t, read |-> didRead[t],
              response |-> Success(r.predicted_label, r.confidence_score,
                                   r.all_probabilities,
                                   marked.arrays[1], marked.arrays[marked.marked_img]),
              idx |-> r.predicted_class_idx, id_to_label |-> ID_TO_LABEL,
              model |-> heap[fwd[t]]]

\* Lines 63-70: the forward pass ends, with the raw output or an error; then
\* the softmax and the label, and in the handler lines 1078-1095.
ForwardEnd(t) ==
    /\ pc[t] = "forward"
    /\ pc' = [pc EXCEPT ![t] = "idle"]
    /\ fwd' = [fwd EXCEPT ![t] = 0]
    /\ route' = [route EXCEPT ![t] = FALSE]
    /\ \/ out' = Raise(t, "RuntimeError: forward pass failed")
       \/ \E output \in ForwardOutputs :
            LET r == Classify(output, ID_TO_LABEL)
            IN  IF r.raised # ""
                THEN out' = Raise(t, r.raised)
                ELSE \E img \in Images, fault \in {"", "cv2.error", "image_to_base64 failed"} :
                        out' = Finish(t, r, img, fault)
    /\ UNCHANGED <<globals, heap, loadLocals, didRead, loaded, failed>>

analyze(t) ==
    \/ AnalyzeCall(t)
    \/ ClassifyCall(t)
    \/ ForwardBegin(t)
    \/ ForwardEnd(t)

Next == \E t \in Threads : load_model(t) \/ analyze(t)

Spec == Init /\ [][Next]_vars

\* A sequence of calls: a call begins only when no other call is in progress.
Quiet(t) == \A u \in Threads \ {t} : pc[u] = "idle"

SeqLoadCall(t) == Quiet(t) /\ LoadCall(t)
SeqAnalyzeCall(t) == Quiet(t) /\ AnalyzeCall(t)
SeqClassifyCall(t) == Quiet(t) /\ ClassifyCall(t)

NextSeq ==
    \E t \in Threads :
        \/ SeqLoadCall(t)
        \/ SeqAnalyzeCall(t)
        \/ SeqClassifyCall(t)
        \/ LoadRead(t)
        \/ LoadCreate(t)
        \/ LoadStateDict(t)
        \/ LoadToDevice(t)
        \/ LoadEval(t)
        \/ LoadLabelToId(t)
        \/ LoadIdToLabel(t)
        \/ ForwardBegin(t)
        \/ ForwardEnd(t)

SpecSeq == Init /\ [][NextSeq]_vars

\* Lines 64-70 applied to every raw output and every index-to-label map.
LabelMaps == {c.id_to_label : c \in CheckpointFiles}

ClassifyApply ==
    /\ \E output \in Logits, m \in LabelMaps :
         out' = [op |-> "classify", output |-> output, id_to_label |-> m,
                 result |-> Classify(output, m)]
    /\ UNCHANGED <<globals, heap, pc, loadLocals, didRead, analyzeLocals, loaded, failed>>

SpecClassify == Init /\ [][ClassifyApply]_vars

(***************************************************************************)
(* Lines 1078 and 1085 of the handler, each applied once from the initial *)
(* state to every decoded image of Scenes and every label of Predictions: *)
(* the labels of the closed set and those an index-to-label map of a      *)
(* checkpoint may hold besides.                                           *)
(***************************************************************************)
MaxContours == 2
MaxLines == 13

AreaVals == {25, 26, 30, 31, 249, 250, 299, 300}

ContourAreas == UNION {[1 .. n -> AreaVals] : n \in 0 .. MaxContours}

\* More qualifying contours than either cap of the line branches.
Crowded == Image("crowded", [i \in 1 .. MaxLines |-> 31], 0, 0)

Scenes ==
    Images \cup {Crowded} \cup
    {Image("scan", areas, nMI, nNormal) :
        areas \in ContourAreas, nMI \in 0 .. MaxLines, nNormal \in 0 .. MaxLines}

Predictions == KnownLabels \cup UNION {{m.items[i] : i \in DOMAIN m.items} : m \in {x \in LabelMaps : x.py = "dict"}}

MarkApply ==
    /\ out = NoOut
    /\ \E img \in Scenes, prediction \in Predictions :
         LET marked == mark_ecg_image(<<img>>, 1, prediction)
         IN  out' = [op |-> "mark", prediction |-> prediction,
                     before |-> <<img>>, img_array |-> 1,
                     after |-> marked.arrays, marked_array |-> marked.marked_img,
                     ran |-> marked.ran]
    /\ UNCHANGED <<globals, heap, pc, loadLocals, didRead, analyzeLocals, loaded, failed>>

ExplainApply ==
    /\ out = NoOut
    /\ \E prediction \in Predictions :
         out' = [op |-> "explain", prediction |-> prediction,
                 explanation |-> get_explanation(prediction)]
    /\ UNCHANGED <<globals, heap, pc, loadLocals, didRead, analyzeLocals, loaded, failed>>

SpecAnnotate == Init /\ [][MarkApply \/ ExplainApply]_vars

(***************************************************************************)
(* displayResults, lines 1019-1038: the probability list of the result    *)
(* view: entry index of data.probabilities under the index-th name of the *)
(* literal list, as a rounded percentage.                                 *)
(***************************************************************************)
displayResults(data) ==
    [index \in ClassIdx |->
        [label |-> labels[index + 1],
         percentage |-> (2 * 100 * data.probabilities[index] + ProbUnit) \div (2 * ProbUnit)]]

(***************************************************************************)
(* Properties                                                              *)
(***************************************************************************)
IsDict(v) == v.py = "dict"

AnalyzeResponded == out.op = "analyze"
AnalyzeSucceeded == AnalyzeResponded /\ out.response.success

\* C1: after any call of load_model returns, MODEL, LABEL_TO_ID and
\* ID_TO_LABEL are all set or all unset, and they are all unset when the
\* call returned None.
C1_AllOrNothing ==
    out.op = "load_model" =>
        /\ \/ MODEL # 0 /\ IsDict(LABEL_TO_ID) /\ IsDict(ID_TO_LABEL)
           \/ MODEL = 0 /\ ~IsDict(LABEL_TO_ID) /\ ~IsDict(ID_TO_LABEL)
        /\ out.value = 0 => MODEL = 0

\* C2: in a sequence of calls, a call of load_model made after a load has
\* succeeded returns the instance that load returned, without calling
\* torch.load and without changing MODEL, LABEL_TO_ID, ID_TO_LABEL or the
\* instance, whatever its model_path.
C2_Idempotent ==
    [][\A t \in Threads :
          (LoadCall(t) /\ loaded # 0) =>
              /\ out'.op = "load_model"
              /\ out'.by = t
              /\ out'.value = loaded
              /\ ~out'.read
              /\ UNCHANGED <<globals, heap>>]_vars

C2_Witness ==
    /\ out.op = "load_model"
    /\ loaded # 0
    /\ ~out.read
    /\ out.value = loaded

\* C3: once a load has failed, an analysis request that finds no model
\* loaded attempts the load again.
C3_RetryOnRequest ==
    (failed /\ AnalyzeResponded /\ out.response = Failure(NotLoadedError)) => out.read

\* C4: while no load has succeeded, a request that /analyze takes as far as
\* the classification is answered with the not-loaded failure, and
\* analyze_ecg_image called on its own fails without a result.
ClassificationAttempted ==
    /\ AnalyzeResponded
    /\ out.response.success \/ out.response.error \notin RequestErrors \cup {"No file uploaded"}

C4_NotLoadedExplicit ==
    loaded = 0 =>
        /\ ClassificationAttempted => out.response = Failure(NotLoadedError)
        /\ out.op = "analyze_ecg_image" => out.raised # ""

\* C5: at most one load is ever in progress past the check of MODEL, and at
\* most one model instance is ever constructed and assigned.
InLoad(t) == pc[t] \notin {"idle", "call_model", "forward"}

C5_SingleFlight ==
    /\ Cardinality({t \in Threads : InLoad(t)}) <= 1
    /\ Len(heap) <= 1

\* C6: no two forward passes of one model instance are in progress at once.
C6_ForwardSerialized ==
    \A t, u \in Threads : (t # u /\ fwd[t] # 0) => fwd[t] # fwd[u]

\* C7: every /analyze call ends in a response that is either a success with
\* all of label, confidence, probabilities and annotated image, or a failure
\* with a message and none of them; an exception in analyze_ecg_image called
\* by the handler ends in such a response, not in a raised exception.
SuccessFields ==
    {"success", "prediction", "confidence", "probabilities", "original_image",
     "marked_image", "explanation"}

WellFormed(response) ==
    IF response.success
    THEN DOMAIN response = SuccessFields
    ELSE DOMAIN response = {"success", "error"}

C7_NoPartialResults ==
    [][/\ out'.op = "analyze" => WellFormed(out'.response)
       /\ \A t \in Threads :
            (route[t] /\ pc'[t] = "idle") => (out'.op = "analyze" /\ out'.by = t)]_vars

C7_Witness ==
    /\ AnalyzeResponded
    /\ ~out.response.success
    /\ out.response.error = "KeyError"

\* C8: the confidence is the largest entry of the probability vector, the
\* predicted index holds that entry, and the label is the one the
\* index-to-label map gives the predicted index.
C8_ConfidenceIsMax ==
    (out.op = "classify" /\ out.result.raised = "") =>
        LET r == out.result
            top == Max({r.all_probabilities[i] : i \in ClassIdx})
        IN  /\ r.confidence_score = top
            /\ r.all_probabilities[r.predicted_class_idx] = top
            /\ r.predicted_label = out.id_to_label.items[r.predicted_class_idx]

C8_Witness ==
    /\ out.op = "classify"
    /\ out.result.raised = ""
    /\ out.result.predicted_class_idx = 2
    /\ out.result.confidence_score < ProbUnit
    /\ \E i \in ClassIdx : out.result.all_probabilities[i] = 0

\* C9: the label of a successful analysis is one of the four class names.
C9_LabelInClosedSet ==
    AnalyzeSucceeded => out.response.prediction \in KnownLabels

\* C10: the index-to-label map in use has exactly the indices of the
\* probability vector, and the result view shows entry i under the label the
\* map gives i.
C10_DisplayMatchesMap ==
    AnalyzeSucceeded =>
        /\ DOMAIN out.id_to_label.items = DOMAIN out.response.probabilities
        /\ \A i \in DOMAIN out.id_to_label.items :
              displayResults(out.response)[i].label = out.id_to_label.items[i]
\* C11: the returned probability vector has exactly NumClasses = 4 entries,
\* each between 0 and 1, and they sum to 1 within the rounding of the
\* entries (half a unit of 1/ProbUnit each).
Abs(x) == IF x < 0 THEN -x ELSE x

C11_ProbabilityVector ==
    (out.op = "classify" /\ out.result.raised = "") =>
        LET p == out.result.all_probabilities
        IN  /\ DOMAIN p = 0 .. 3
            /\ \A i \in DOMAIN p : 0 <= p[i] /\ p[i] <= ProbUnit
            /\ 2 * Abs(Sum(p, DOMAIN p) - ProbUnit) <= Cardinality(DOMAIN p)

C11_Witness ==
    /\ out.op = "classify"
    /\ out.result.raised = ""
    /\ Sum(out.result.all_probabilities, ClassIdx) # ProbUnit
    /\ \E i, j \in ClassIdx :
          /\ out.result.all_probabilities[i] = 0
          /\ out.result.all_probabilities[j] \notin {0, ProbUnit}
MarkReturned == out.op = "mark"

\* C12: mark_ecg_image never changes the array it is given: every array that
\* existed before the call is the same after it, the array it returns is a
\* new one, a copy of the input, and every shape drawn is on that copy.
C12_InputNotMutated ==
    MarkReturned =>
        /\ \A a \in DOMAIN out.before : out.after[a] = out.before[a]
        /\ out.marked_array # out.img_array
        /\ out.marked_array \notin DOMAIN out.before
        /\ out.marked_array \in DOMAIN out.after
        /\ [out.after[out.marked_array] EXCEPT !.drawn = << >>] = out.before[out.img_array]

C12_Witness ==
    /\ MarkReturned
    /\ out.after[out.marked_array].drawn # << >>
    /\ out.after[out.img_array].drawn = << >>
\* C13: given a label that is none of the four, mark_ecg_image returns
\* normally and the array it returns is an unmarked copy, equal to the
\* input: no branch of the chain has drawn anything.
C13_UnknownLabelUnmarked ==
    (/\ MarkReturned
     /\ out.prediction \notin {"Abnormal_Heartbeat", "Myocardial_Infarction",
                               "Normal_ECG", "Post_MI_History"}) =>
        /\ out.ran = << >>
        /\ out.after[out.marked_array].drawn = << >>
        /\ out.after[out.marked_array] = out.before[out.img_array]

\* An unknown label on an image where every strategy would have drawn.
C13_Witness ==
    /\ MarkReturned
    /\ out.prediction = "Atrial_Fibrillation"
    /\ out.before[out.img_array].linesMI > 0
    /\ out.before[out.img_array].linesNormal > 0
    /\ \E i \in DOMAIN out.before[out.img_array].contours :
          out.before[out.img_array].contours[i] = 31
    /\ out.after[out.marked_array] = out.before[out.img_array]
\* C14: get_explanation returns, for each of the four labels, the record of
\* that label (the four records differ), and for any other label the
\* Normal_ECG record; it always returns, and the call changes neither the
\* globals nor the model instances.
C14_ExplanationLookup ==
    [][out'.op = "explain" =>
        /\ out'.prediction = "Abnormal_Heartbeat" =>
              /\ out'.explanation = explanations.Abnormal_Heartbeat
              /\ out'.explanation.severity = "warning"
        /\ out'.prediction = "Myocardial_Infarction" =>
              /\ out'.explanation = explanations.Myocardial_Infarction
              /\ out'.explanation.severity = "critical"
        /\ out'.prediction = "Post_MI_History" =>
              /\ out'.explanation = explanations.Post_MI_History
              /\ out'.explanation.severity = "monitor"
        /\ out'.prediction \notin {"Abnormal_Heartbeat", "Myocardial_Infarction",
                                   "Post_MI_History"} =>
              /\ out'.explanation = explanations.Normal_ECG
              /\ out'.explanation.title = "Normal ECG Pattern"
              /\ out'.explanation.severity = "normal"
        /\ UNCHANGED <<globals, heap>>]_vars

C14_Witness ==
    /\ out.op = "explain"
    /\ out.prediction = "Atrial_Fibrillation"
    /\ out.explanation.severity = "normal"
DecodeFailed ==
    /\ AnalyzeResponded
    /\ ~out.response.success
    /\ out.response.error = "UnidentifiedImageError"

\* C15: no step of an /analyze request, whatever its outcome, changes MODEL,
\* LABEL_TO_ID or ID_TO_LABEL: a step that changes one of them is a step of
\* a thread inside load_model; a request whose bytes are no image ends in a
\* failure response, and after it the next request of the same client still
\* passes the model check and goes on to classification.
C15_RequestsLeaveModelState ==
    /\ [][globals' # globals => \E t \in Threads : InLoad(t) /\ pc'[t] # pc[t]]_vars
    /\ [](DecodeFailed =>
            /\ pc[out.by] = "idle"
            /\ ENABLED (AnalyzeCall(out.by) /\ pc'[out.by] = "call_model"))

C15_Witness ==
    /\ DecodeFailed
    /\ MODEL # 0
    /\ IsDict(ID_TO_LABEL)
    /\ IsDict(LABEL_TO_ID)
\* The areas of the contours of the input, and what none of them qualifying
\* or no segment being detected means for each label.
InputAreas == out.before[out.img_array].contours

NoneInside(lo, hi) == \A i \in DOMAIN InputAreas : ~(lo < InputAreas[i] /\ InputAreas[i] < hi)

NothingDetected ==
    \/ out.prediction = "Abnormal_Heartbeat" /\ NoneInside(30, 300)
    \/ out.prediction = "Myocardial_Infarction" /\ out.before[out.img_array].linesMI = 0
    \/ out.prediction = "Normal_ECG" /\ out.before[out.img_array].linesNormal = 0
    \/ out.prediction = "Post_MI_History" /\ NoneInside(25, 250)

\* C16: when the detector of a known label finds no contour of a qualifying
\* area, or no segment, mark_ecg_image still runs that label's branch and
\* returns normally, and the array it returns equals the input.
C16_NothingDetectedUnmarked ==
    (MarkReturned /\ NothingDetected) =>
        /\ out.ran = <<out.prediction>>
        /\ out.after[out.marked_array] = out.before[out.img_array]

\* Contours are found, but none of a qualifying area.
C16_Witness ==
    /\ MarkReturned
    /\ out.prediction = "Abnormal_Heartbeat"
    /\ InputAreas = <<30, 300>>
    /\ out.after[out.marked_array] = out.before[out.img_array]
\* The first min(n, cap) detected segments, in detection order, as green
\* lines of the given thickness.
FirstSegments(n, cap, thickness) ==
    [i \in 1 .. (IF n < cap THEN n ELSE cap) |->
        [shape |-> "line", of |-> i, color |-> <<0, 255, 0>>, thickness |-> thickness]]

SegmentsCapped ==
    /\ out.prediction = "Myocardial_Infarction" =>
          out.after[out.marked_array].drawn =
              FirstSegments(out.before[out.img_array].linesMI, 12, 3)
    /\ out.prediction = "Normal_ECG" =>
          out.after[out.marked_array].drawn =
              FirstSegments(out.before[out.img_array].linesNormal, 10, 2)

\* C17 as stated: the segments drawn are the first min(n,12) for
\* Myocardial_Infarction and the first min(n,10) for Normal_ECG, in detection
\* order, and exactly one strategy runs in every call.
C17_ExactlyOneStrategy ==
    MarkReturned => (SegmentsCapped /\ Len(out.ran) = 1)

\* C17, amended: the segments drawn are the first min(n,12) for
\* Myocardial_Infarction and the first min(n,10) for Normal_ECG, in detection
\* order and none beyond; at most one strategy runs in a call: the one of the
\* label when the label is one of the four, none otherwise.
C17_SegmentsCappedOneBranch ==
    MarkReturned =>
        /\ SegmentsCapped
        /\ Len(out.ran) <= 1
        /\ out.ran = IF out.prediction \in {"Abnormal_Heartbeat", "Myocardial_Infarction",
                                            "Normal_ECG", "Post_MI_History"}
                     THEN <<out.prediction>>
                     ELSE << >>

\* More segments detected than the cap: 13 for Myocardial_Infarction.
C17_Witness ==
    /\ MarkReturned
    /\ out.prediction = "Myocardial_Infarction"
    /\ out.before[out.img_array].linesMI = 13
    /\ Len(out.after[out.marked_array].drawn) = 12
    /\ out.ran = <<"Myocardial_Infarction">>
\* The contours of the input whose area is strictly between lo and hi.
StrictlyInside(lo, hi) == {i \in DOMAIN InputAreas : lo < InputAreas[i] /\ InputAreas[i] < hi}

\* The shapes drawn are one rectangle of the colour per contour of S, in the
\* order of the contours, and nothing else.
RectanglesExactly(S, color) ==
    LET drawn == out.after[out.marked_array].drawn
    IN  /\ Len(drawn) = Cardinality(S)
        /\ {drawn[k].of : k \in DOMAIN drawn} = S
        /\ \A k \in DOMAIN drawn :
              /\ drawn[k].shape = "rectangle"
              /\ drawn[k].color = color
        /\ \A j, k \in DOMAIN drawn : j < k => drawn[j].of < drawn[k].of

\* C18: in the contour branches a rectangle is drawn for every contour whose
\* area is strictly inside (30,300) for Abnormal_Heartbeat, (25,250) for
\* Post_MI_History, and for no other contour: an area equal to a bound is
\* not marked, and every qualifying contour is marked however many there are.
C18_RectanglesStrictlyInside ==
    MarkReturned =>
        /\ out.prediction = "Abnormal_Heartbeat" =>
              RectanglesExactly(StrictlyInside(30, 300), <<255, 0, 0>>)
        /\ out.prediction = "Post_MI_History" =>
              RectanglesExactly(StrictlyInside(25, 250), <<255, 0, 255>>)

\* Every one of more than 12 qualifying contours gets its rectangle.
C18_Witness ==
    /\ MarkReturned
    /\ out.prediction = "Post_MI_History"
    /\ Len(InputAreas) > 12
    /\ Len(out.after[out.marked_array].drawn) = Len(InputAreas)
====
